---------------------------- MODULE Spec2Model ----------------------------
(***************************************************************************)
(* A model of the secure web gateway of week2-secure-web-gateway/proxy/    *)
(* main.go: the blocklist and its RWMutex, UpdateBlocklist and the         *)
(* periodic refresh, IsBlocked, and ServeHTTP with its two outcomes.       *)
(*                                                                         *)
(* Strings are sequences of one-character strings, so that strings.Split,  *)
(* strings.Join and strings.ToLower are computed, not assumed.             *)
(***************************************************************************)
EXTENDS Integers, Sequences, FiniteSets, TLC

(***************************************************************************)
(* Bounds of the model.                                                    *)
(***************************************************************************)
\* longest host string handed to IsBlocked in MatchSpec
MaxHostLen == 4
\* most entries in a policy document in MatchSpec
MaxDocLen == 1

(***************************************************************************)
(* Strings.                                                                *)
(***************************************************************************)
\* the alphabet: a letter in both cases, the label separator, the port separator
Chars == {"a", "A", ".", ":"}

\* unicode.ToLower on one character of the alphabet
ToLowerChar(c) == IF c = "A" THEN "a" ELSE c

\* strings.ToLower
ToLower(s) == [i \in 1..Len(s) |-> ToLowerChar(s[i])]

\* index of the first sep in s at or after position from, 0 when there is none
RECURSIVE IndexFrom(_, _, _)
IndexFrom(s, sep, from) ==
    IF from > Len(s) THEN 0
    ELSE IF s[from] = sep THEN from
    ELSE IndexFrom(s, sep, from + 1)

\* strings.Split(s, sep) for a one-character sep: n separators give n+1 pieces,
\* and the empty string gives one empty piece
RECURSIVE Split(_, _)
Split(s, sep) ==
    LET k == IndexFrom(s, sep, 1)
    IN  IF k = 0 THEN <<s>>
        ELSE <<SubSeq(s, 1, k - 1)>> \o Split(SubSeq(s, k + 1, Len(s)), sep)

\* strings.Join(parts, sep)
RECURSIVE Join(_, _)
Join(parts, sep) ==
    IF Len(parts) = 0 THEN <<>>
    ELSE IF Len(parts) = 1 THEN parts[1]
    ELSE parts[1] \o <<sep>> \o Join(Tail(parts), sep)

\* every string over Chars of length at most n
StringsUpTo(n) == UNION {[1..k -> Chars] : k \in 0..n}

\* the strings the small specifications use
s_empty == <<>>
s_a == <<"a">>
s_A == <<"A">>
s_aa == <<"a", "a">>
s_a_a == <<"a", ".", "a">>
s_A_a == <<"A", ".", "a">>
s_a_dot == <<"a", ".">>
s_a_port == <<"a", ":", "a">>
s_A_port == <<"A", ":", "a">>
s_a_a_port == <<"a", ".", "a", ":", "a">>

(***************************************************************************)
(* Bounds and input sets of the concurrent specification.                  *)
(***************************************************************************)
\* handler goroutines that can be inside ServeHTTP at once
MaxReqs == 2
\* the consecutive failed refreshes that are counted (the count saturates)
MaxFailures == 1

Reqs == 1..MaxReqs

\* inbound requests: r.Host and r.URL.Host, which net/http makes equal for a
\* proxy-style request
Requests ==
    { [Host |-> s_a_a, URLHost |-> s_a_a],
      [Host |-> s_A_port, URLHost |-> s_A_port] }

\* the lists a policy document of the concurrent specification can hold
PolicyDocs == { <<s_a_a>>, <<s_aa, s_A>> }

\* what the policy source can answer: a status and a body. A body is a JSON
\* document with a list of strings under "blocked", or text json.Decode rejects.
PolicyBodies ==
    { [kind |-> "list", blocked |-> d] : d \in PolicyDocs }
      \cup { [kind |-> "malformed", blocked |-> <<>>] }

PolicyStatuses == {200, 500}

\* FetchSpec: the bodies with one more kind, a JSON document without a list
\* under "blocked" ({}, null, {"blocked": null}), which json.Decode accepts
\* and which leaves policy.Blocked nil
FetchBodies == PolicyBodies \cup { [kind |-> "nolist", blocked |-> <<>>] }

\* FetchSpec: the statuses, with a 2xx other than 200 and a 4xx
FetchStatuses == PolicyStatuses \cup {203, 404}

\* the document the policy source serves at the start
InitialSource == [kind |-> "list", blocked |-> <<s_a_a>>]

\* what an upstream answers to a forwarded request
UpstreamStatuses == {200, 301}

\* every string handed to IsBlocked in MatchSpec
Hosts == StringsUpTo(MaxHostLen)

\* the entries a policy document of MatchSpec is made of
PolicyEntries ==
    { s_empty, s_a, s_A, s_aa, s_a_a, s_A_a, s_a_dot, s_a_port, s_a_a_port }

\* the policy documents of MatchSpec
MatchDocs == UNION {[1..k -> PolicyEntries] : k \in 0..MaxDocLen}

(***************************************************************************)
(* The program's state.                                                    *)
(***************************************************************************)
VARIABLES
    blocklist,       \* ps.blocklist: the set of keys of the map
    blocklistMutex,  \* ps.blocklistMutex: writer holds, writer waits, readers inside
    mainPc,          \* where main() is
    periodicPc,      \* where the goroutine of StartPeriodicUpdate is
    upd,             \* the frame of the running UpdateBlocklist call
    handler,         \* per handler goroutine: the frame of its ServeHTTP call
    installed,       \* history: the last set a finished UpdateBlocklist left current
    failures,        \* history: consecutive failed refresh attempts, saturating
    mPc,             \* MatchSpec: "start", "installed" or "looked"
    policyDoc,       \* MatchSpec: the document the refresh installed
    lookupHost,      \* MatchSpec: the argument of the IsBlocked call
    lookupResult,    \* MatchSpec: what the IsBlocked call returned
    fw,              \* ForwardSpec: the frame of one ServeHTTP call, forwardRequest in detail
    agent,           \* AgentSpec: the frame of one SendReportWithRetry call
    device,          \* CollectSpec: the frame of one CollectDeviceStatus call
    source           \* FetchSpec: the document the policy source serves

vars == <<blocklist, blocklistMutex, mainPc, periodicPc, upd, handler,
          installed, failures, mPc, policyDoc, lookupHost, lookupResult, fw, agent,
          device, source>>

matchVars == <<mPc, policyDoc, lookupHost, lookupResult>>
seqVars == <<fw, agent, device, source>>
proxyVars == <<blocklistMutex, mainPc, periodicPc, upd, handler, installed, failures>>

(***************************************************************************)
(* UpdateBlocklist and IsBlocked as functions of their inputs.             *)
(***************************************************************************)
\* mutant: the entry is stored as written
KeyAsWritten(domain) == domain

\* the key UpdateBlocklist stores for one entry of policy.Blocked
BlocklistKey(domain) == ToLower(domain)

\* the map UpdateBlocklist builds from policy.Blocked: a fresh map with the
\* lowercased entries as keys
Rebuild(blocked) == {BlocklistKey(blocked[i]) : i \in 1..Len(blocked)}

\* json.Decode into PolicyResponse fails on a body that is no JSON
DecodeFails(body) == body.kind = "malformed"

\* mutant: the status of the answer is not looked at
FetchFailsOnDecodeOnly(status, body) == DecodeFails(body)

\* UpdateBlocklist returns an error before it takes the lock
FetchFails(status, body) == status # 200 \/ DecodeFails(body)

\* mutant: the port stays on the host
KeepPort(host) == host

\* strings.Split(host, ":")[0]
StripPort(host) == Split(host, ":")[1]

\* domain := strings.ToLower(strings.Split(host, ":")[0])
Domain(host) == ToLower(StripPort(host))

\* strings.Join(parts[i:], ".")
ParentDomain(parts, i) == Join(SubSeq(parts, i + 1, Len(parts)), ".")

\* mutant: every proper suffix of the string is tested, label boundary or not
StringSuffixes(domain) == {SubSeq(domain, k, Len(domain)) : k \in 2..Len(domain)}

\* the parent domains the loop of IsBlocked tests, i = 1 .. len(parts)-1
ParentDomains(domain) ==
    LET parts == Split(domain, ".")
    IN  {ParentDomain(parts, i) : i \in 1..(Len(parts) - 1)}

\* IsBlocked(host) against the map bl
IsBlocked(bl, host) ==
    LET domain == Domain(host)
    IN  domain \in bl \/ \E p \in ParentDomains(domain) : p \in bl

\* host := r.Host; if host == "" { host = r.URL.Host }
RequestHost(req) == IF req.Host = s_empty THEN req.URLHost ELSE req.Host

\* mutant: readers do not wait for the writer
RLockNeverWaits(m) == TRUE

\* mutant: a reader waits for a waiting writer only, not for one inside
RLockIgnoresWriter(m) == ~m.pending

\* mutant: a plain mutex, one reader at a time
RLockExclusive(m) == ~m.writer /\ ~m.pending /\ m.readers = {}

\* RWMutex.RLock goes through when no writer holds the lock or waits for it
CanRLock(m) == ~m.writer /\ ~m.pending

\* mutant: the writer does not wait for the readers to leave
LockIgnoresReaders(m) == ~m.writer

\* RWMutex.Lock goes through once the readers that were inside have left
CanLock(m) == ~m.writer /\ m.readers = {}

\* mutant: the request is forwarded whatever the verdict
AlwaysForward(verdict) == "forward"

\* ServeHTTP: the blocked page when IsBlocked returned true, else the forward
DispatchTarget(verdict) == IF verdict THEN "blockedPage" ELSE "forward"

\* mutant: the page does not name the host
BlockPageWithoutHost(host) ==
    <<"<!DOCTYPE html>...<div class=\"domain\">">> \o <<"</div>...</html>">>

\* the body serveBlockedPage writes: the fixed page with the host in its place
BlockPage(host) ==
    <<"<!DOCTYPE html>...<div class=\"domain\">">> \o host \o <<"</div>...</html>">>

\* the status serveBlockedPage writes
BlockedStatus == 403

\* the status forwardRequest writes when client.Do returns an error
BadGatewayStatus == 502

\* mutant: the loop returns on an error
StopsOnError(err) == IF err THEN "stopped" ELSE "waitTick"

\* the loop of StartPeriodicUpdate goes on to the next tick, error or not
PeriodicAfter(err) == "waitTick"

(***************************************************************************)
(* The initial state: NewProxyServer has run, main is about to load.       *)
(***************************************************************************)
NoReq == [Host |-> s_empty, URLHost |-> s_empty]

IdleHandler ==
    [pc |-> "idle", req |-> NoReq, host |-> s_empty, i |-> 0,
     decided |-> FALSE, verdict |-> FALSE,
     status |-> 0, ctype |-> "", body |-> <<>>, outbound |-> 0, old |-> {}, seen |-> {}]

NoBody == [kind |-> "none", blocked |-> <<>>]

\* the frame of UpdateBlocklist; netErr, before and locked are history: whether
\* http.Get returned an error, the blocklist at the call, whether Lock was called
IdleUpdate ==
    [pc |-> "idle", status |-> 0, body |-> NoBody, policy |-> <<>>, idx |-> 0,
     err |-> FALSE, netErr |-> FALSE, before |-> {}, locked |-> FALSE]

\* the header names the model follows through forwardRequest
HeaderKeys == {"Content-Type", "Location", "Set-Cookie", "X-Content-Type-Options"}

\* an http.Header without entries: a missing key has no values
NoHeader == [k \in HeaderKeys |-> <<>>]

NoResp == [status |-> 0, header |-> NoHeader, body |-> <<>>]

NoFwdReq ==
    [Host |-> s_empty, URLHost |-> s_empty, Path |-> s_empty, absolute |-> FALSE,
     HostHeader |-> s_empty]

\* the frame of one ServeHTTP call with forwardRequest in detail.  outbound is
\* the number of outbound requests issued, resp what client.Do returned,
\* delivered how many chunks of the upstream body have arrived, todo the keys of
\* resp.Header the copy loop has not reached, wHeader, wStatus and wBody what
\* the ResponseWriter has been given and log the order it was given in;
\* lookedUp, forwarded, followed and cause are history: whether IsBlocked and
\* forwardRequest were called, whether a request went to a Location target,
\* and why client.Do or io.Copy failed; clientGone is whether the inbound
\* connection was closed by the client while the request was being forwarded
IdleForward ==
    [pc |-> "start", req |-> NoFwdReq, host |-> s_empty, lookedUp |-> FALSE,
     forwarded |-> FALSE, verdict |-> FALSE, target |-> s_empty, outbound |-> 0,
     followed |-> FALSE,
     resp |-> NoResp, delivered |-> 0, todo |-> {}, wHeader |-> NoHeader,
     wStatus |-> 0, wBody |-> <<>>, log |-> <<>>, cause |-> "none", clientGone |-> FALSE]

\* the frame of one SendReportWithRetry call: waits is the seconds slept, in
\* order, sends the number of SendReport calls
IdleAgent ==
    [pc |-> "idle", maxRetries |-> 0, attempt |-> 0, lastErr |-> "nil",
     waits |-> <<>>, sends |-> 0]

\* the frame of one CollectDeviceStatus call: usage is what GetDiskUsage
\* returned (a float64: NaN, or a number kept in tenths of a percent)
IdleDevice ==
    [pc |-> "hostname", usage |-> [nan |-> FALSE, tenths |-> 0],
     status |-> "", message |-> "", err |-> "nil"]

Init ==
    /\ blocklist = {}
    /\ blocklistMutex = [writer |-> FALSE, pending |-> FALSE, readers |-> {}]
    /\ mainPc = "load"
    /\ periodicPc = "notStarted"
    /\ upd = IdleUpdate
    /\ handler = [r \in Reqs |-> IdleHandler]
    /\ installed = {}
    /\ failures = 0
    /\ mPc = "start"
    /\ policyDoc = <<>>
    /\ lookupHost = s_empty
    /\ lookupResult = FALSE
    /\ fw = IdleForward
    /\ agent = IdleAgent
    /\ device = IdleDevice
    /\ source = InitialSource

\* mutant: the startup call runs in a goroutine of its own and main goes on
Main_LoadInitialAsync ==
    /\ mainPc = "load"
    /\ mainPc' = "listen"
    /\ periodicPc' = "waitTick"
    /\ upd' = [IdleUpdate EXCEPT !.pc = "get", !.before = blocklist]
    /\ UNCHANGED <<blocklist, blocklistMutex, handler, installed, failures>>
    /\ UNCHANGED matchVars
    /\ UNCHANGED seqVars

(***************************************************************************)
(* main and the periodic refresh.                                          *)
(***************************************************************************)
\* main: proxy.UpdateBlocklist() is called
Main_LoadInitial ==
    /\ mainPc = "load"
    /\ mainPc' = "loading"
    /\ upd' = [IdleUpdate EXCEPT !.pc = "get", !.before = blocklist]
    /\ UNCHANGED <<blocklist, blocklistMutex, periodicPc, handler, installed, failures>>
    /\ UNCHANGED matchVars
    /\ UNCHANGED seqVars

\* the count of consecutive failures after a call that returned err
FailuresAfter(err) ==
    IF err THEN (IF failures < MaxFailures THEN failures + 1 ELSE failures) ELSE 0

\* main: the initial call has returned (its error is only logged) and
\* StartPeriodicUpdate starts the goroutine
Main_StartPeriodic ==
    /\ mainPc = "loading"
    /\ upd.pc = "returned"
    /\ mainPc' = "listen"
    /\ periodicPc' = "waitTick"
    /\ failures' = FailuresAfter(upd.err)
    /\ upd' = IdleUpdate
    /\ UNCHANGED <<blocklist, blocklistMutex, handler, installed>>
    /\ UNCHANGED matchVars
    /\ UNCHANGED seqVars

\* main: server.ListenAndServe()
Main_ListenAndServe ==
    /\ mainPc = "listen"
    /\ mainPc' = "serving"
    /\ UNCHANGED <<blocklist, blocklistMutex, periodicPc, upd, handler, installed, failures>>
    /\ UNCHANGED matchVars
    /\ UNCHANGED seqVars

\* the goroutine: a tick arrives and UpdateBlocklist is called
Periodic_Tick ==
    /\ periodicPc = "waitTick"
    /\ upd.pc = "idle"
    /\ periodicPc' = "updating"
    /\ upd' = [IdleUpdate EXCEPT !.pc = "get", !.before = blocklist]
    /\ UNCHANGED <<blocklist, blocklistMutex, mainPc, handler, installed, failures>>
    /\ UNCHANGED matchVars
    /\ UNCHANGED seqVars

\* the goroutine: the call has returned; an error is logged and the loop goes on
Periodic_AfterUpdate ==
    /\ periodicPc = "updating"
    /\ upd.pc = "returned"
    /\ periodicPc' = PeriodicAfter(upd.err)
    /\ failures' = FailuresAfter(upd.err)
    /\ upd' = IdleUpdate
    /\ UNCHANGED <<blocklist, blocklistMutex, mainPc, handler, installed>>
    /\ UNCHANGED matchVars
    /\ UNCHANGED seqVars

\* mutant: the write lock is taken before the document is fetched
UpdateBlocklist_GetUnderLock ==
    /\ upd.pc = "get"
    /\ CanLock(blocklistMutex)
    /\ blocklistMutex' = [blocklistMutex EXCEPT !.writer = TRUE]
    /\ upd' = [upd EXCEPT !.pc = "await"]
    /\ UNCHANGED <<blocklist, mainPc, periodicPc, handler, installed, failures>>
    /\ UNCHANGED matchVars
    /\ UNCHANGED seqVars

(***************************************************************************)
(* UpdateBlocklist, step by step.                                          *)
(***************************************************************************)
\* http.Get(ps.policyURL) is issued; the call waits for the answer (the
\* default client has no timeout)
UpdateBlocklist_Get ==
    /\ upd.pc = "get"
    /\ upd' = [upd EXCEPT !.pc = "await"]
    /\ UNCHANGED <<blocklist, blocklistMutex, mainPc, periodicPc, handler, installed, failures>>
    /\ UNCHANGED matchVars
    /\ UNCHANGED seqVars

\* the policy source cannot be reached: http.Get returns an error and
\* UpdateBlocklist returns it
PolicySource_Unreachable ==
    /\ upd.pc = "await"
    /\ upd' = [upd EXCEPT !.pc = "returned", !.err = TRUE, !.netErr = TRUE]
    /\ UNCHANGED <<blocklist, blocklistMutex, mainPc, periodicPc, handler, installed, failures>>
    /\ UNCHANGED matchVars
    /\ UNCHANGED seqVars

\* the policy source answers
PolicySource_Responds(status, body) ==
    /\ upd.pc = "await"
    /\ upd' = [upd EXCEPT !.pc = "received", !.status = status, !.body = body]
    /\ UNCHANGED <<blocklist, blocklistMutex, mainPc, periodicPc, handler, installed, failures>>
    /\ UNCHANGED matchVars
    /\ UNCHANGED seqVars

\* the status check and json.Decode: a failure returns an error, a success
\* leaves the list in policy.Blocked
UpdateBlocklist_Decode ==
    /\ upd.pc = "received"
    /\ upd' = IF FetchFails(upd.status, upd.body)
              THEN [upd EXCEPT !.pc = "returned", !.err = TRUE]
              ELSE [upd EXCEPT !.pc = "lock", !.policy = upd.body.blocked]
    /\ UNCHANGED <<blocklist, blocklistMutex, mainPc, periodicPc, handler, installed, failures>>
    /\ UNCHANGED matchVars
    /\ UNCHANGED seqVars

\* ps.blocklistMutex.Lock(): the writer announces itself, new readers wait
UpdateBlocklist_Lock ==
    /\ upd.pc = "lock"
    /\ blocklistMutex' = [blocklistMutex EXCEPT !.pending = TRUE]
    /\ upd' = [upd EXCEPT !.pc = "lockWait", !.locked = TRUE]
    /\ UNCHANGED <<blocklist, mainPc, periodicPc, handler, installed, failures>>
    /\ UNCHANGED matchVars
    /\ UNCHANGED seqVars

\* Lock() returns once the readers have left
UpdateBlocklist_LockAcquired ==
    /\ upd.pc = "lockWait"
    /\ CanLock(blocklistMutex)
    /\ blocklistMutex' = [blocklistMutex EXCEPT !.pending = FALSE, !.writer = TRUE]
    /\ upd' = [upd EXCEPT !.pc = "make"]
    /\ UNCHANGED <<blocklist, mainPc, periodicPc, handler, installed, failures>>
    /\ UNCHANGED matchVars
    /\ UNCHANGED seqVars

\* mutant: no fresh map, the new entries are added to the old ones
UpdateBlocklist_MakeKeepsOld ==
    /\ upd.pc = "make"
    /\ blocklist' = blocklist
    /\ upd' = [upd EXCEPT !.pc = "fill", !.idx = 1]
    /\ UNCHANGED <<blocklistMutex, mainPc, periodicPc, handler, installed, failures>>
    /\ UNCHANGED matchVars
    /\ UNCHANGED seqVars

\* ps.blocklist = make(map[string]bool)
UpdateBlocklist_Make ==
    /\ upd.pc = "make"
    /\ blocklist' = {}
    /\ upd' = [upd EXCEPT !.pc = "fill", !.idx = 1]
    /\ UNCHANGED <<blocklistMutex, mainPc, periodicPc, handler, installed, failures>>
    /\ UNCHANGED matchVars
    /\ UNCHANGED seqVars

\* one round of the loop over policy.Blocked
UpdateBlocklist_Fill ==
    /\ upd.pc = "fill"
    /\ upd.idx <= Len(upd.policy)
    /\ blocklist' = blocklist \cup {BlocklistKey(upd.policy[upd.idx])}
    /\ upd' = [upd EXCEPT !.idx = upd.idx + 1]
    /\ UNCHANGED <<blocklistMutex, mainPc, periodicPc, handler, installed, failures>>
    /\ UNCHANGED matchVars
    /\ UNCHANGED seqVars

\* return nil; the deferred Unlock runs
UpdateBlocklist_ReturnNil ==
    /\ upd.pc = "fill"
    /\ upd.idx > Len(upd.policy)
    /\ blocklistMutex' = [blocklistMutex EXCEPT !.writer = FALSE]
    /\ installed' = blocklist
    /\ upd' = [upd EXCEPT !.pc = "returned", !.err = FALSE]
    /\ UNCHANGED <<blocklist, mainPc, periodicPc, handler, failures>>
    /\ UNCHANGED matchVars
    /\ UNCHANGED seqVars

(***************************************************************************)
(* ServeHTTP, IsBlocked step by step, and the two outcomes.                *)
(***************************************************************************)
LookupPcs == {"exact", "parents", "runlock"}

\* the sets a lookup may be computed against: the one current when it took the
\* read lock, and the one a refresh that has its document is installing
NewSets == IF upd.pc \in {"lock", "lockWait", "make", "fill"} THEN {Rebuild(upd.policy)} ELSE {}

\* a request arrives (the server is listening) and a handler goroutine runs
\* ServeHTTP up to the call of IsBlocked; the lowest idle handler takes it
ServeHTTP_Start(r, req) ==
    /\ mainPc = "serving"
    /\ handler[r].pc = "idle"
    /\ \A q \in Reqs : q < r => handler[q].pc # "idle"
    /\ handler' = [handler EXCEPT ![r] =
                     [IdleHandler EXCEPT !.pc = "rlock", !.req = req, !.host = RequestHost(req)]]
    /\ UNCHANGED <<blocklist, blocklistMutex, mainPc, periodicPc, upd, installed, failures>>
    /\ UNCHANGED matchVars
    /\ UNCHANGED seqVars

\* ps.blocklistMutex.RLock()
IsBlocked_RLock(r) ==
    /\ handler[r].pc = "rlock"
    /\ CanRLock(blocklistMutex)
    /\ blocklistMutex' = [blocklistMutex EXCEPT !.readers = @ \cup {r}]
    /\ handler' = [handler EXCEPT ![r].pc = "exact", ![r].old = {installed}]
    /\ UNCHANGED <<blocklist, mainPc, periodicPc, upd, installed, failures>>
    /\ UNCHANGED matchVars
    /\ UNCHANGED seqVars

\* if ps.blocklist[domain] { return true }, else on to the loop
IsBlocked_Exact(r) ==
    /\ handler[r].pc = "exact"
    /\ LET h == handler[r]
           domain == Domain(h.host)
           parts == Split(domain, ".")
       IN  handler' = [handler EXCEPT ![r] =
             [h EXCEPT !.seen = h.seen \cup {blocklist},
                       !.decided = domain \in blocklist \/ Len(parts) <= 1,
                       !.verdict = domain \in blocklist,
                       !.i = 1,
                       !.pc = IF domain \in blocklist \/ Len(parts) <= 1
                              THEN "runlock" ELSE "parents"]]
    /\ UNCHANGED <<blocklist, blocklistMutex, mainPc, periodicPc, upd, installed, failures>>
    /\ UNCHANGED matchVars
    /\ UNCHANGED seqVars

\* one round of the loop over the parent domains, i < len(parts)
IsBlocked_Parent(r) ==
    /\ handler[r].pc = "parents"
    /\ LET h == handler[r]
           parts == Split(Domain(h.host), ".")
           hit == ParentDomain(parts, h.i) \in blocklist
           last == h.i + 1 >= Len(parts)
       IN  handler' = [handler EXCEPT ![r] =
             [h EXCEPT !.seen = h.seen \cup {blocklist},
                       !.decided = hit \/ last,
                       !.verdict = hit,
                       !.i = IF hit \/ last THEN h.i ELSE h.i + 1,
                       !.pc = IF hit \/ last THEN "runlock" ELSE "parents"]]
    /\ UNCHANGED <<blocklist, blocklistMutex, mainPc, periodicPc, upd, installed, failures>>
    /\ UNCHANGED matchVars
    /\ UNCHANGED seqVars

\* mutant: IsBlocked returns with the read lock still held
IsBlocked_ReturnKeepsLock(r) ==
    /\ handler[r].pc = "runlock"
    /\ handler' = [handler EXCEPT ![r].pc = DispatchTarget(handler[r].verdict),
                                  ![r].i = 0, ![r].old = {}, ![r].seen = {}]
    /\ UNCHANGED <<blocklist, blocklistMutex, mainPc, periodicPc, upd, installed, failures>>
    /\ UNCHANGED matchVars
    /\ UNCHANGED seqVars

\* IsBlocked returns: the deferred RUnlock runs, ServeHTTP has the verdict
IsBlocked_Return(r) ==
    /\ handler[r].pc = "runlock"
    /\ blocklistMutex' = [blocklistMutex EXCEPT !.readers = @ \ {r}]
    /\ handler' = [handler EXCEPT ![r].pc = DispatchTarget(handler[r].verdict),
                                  ![r].i = 0, ![r].old = {}, ![r].seen = {}]
    /\ UNCHANGED <<blocklist, mainPc, periodicPc, upd, installed, failures>>
    /\ UNCHANGED matchVars
    /\ UNCHANGED seqVars

\* serveBlockedPage(w, host): status 403 and the page; ServeHTTP returns
serveBlockedPage(r) ==
    /\ handler[r].pc = "blockedPage"
    /\ handler' = [handler EXCEPT ![r].pc = "done",
                                  ![r].ctype = "text/html; charset=utf-8",
                                  ![r].status = BlockedStatus,
                                  ![r].body = BlockPage(handler[r].host)]
    /\ UNCHANGED <<blocklist, blocklistMutex, mainPc, periodicPc, upd, installed, failures>>
    /\ UNCHANGED matchVars
    /\ UNCHANGED seqVars

\* forwardRequest(w, r) up to client.Do: the outbound request is issued
forwardRequest_Do(r) ==
    /\ handler[r].pc = "forward"
    /\ handler' = [handler EXCEPT ![r].pc = "await", ![r].outbound = @ + 1]
    /\ UNCHANGED <<blocklist, blocklistMutex, mainPc, periodicPc, upd, installed, failures>>
    /\ UNCHANGED matchVars
    /\ UNCHANGED seqVars

\* mutant: a failed forward empties the blocklist
Upstream_FailsAndClears(r) ==
    /\ handler[r].pc = "await"
    /\ handler' = [handler EXCEPT ![r].pc = "done", ![r].status = BadGatewayStatus]
    /\ blocklist' = {}
    /\ UNCHANGED <<blocklistMutex, mainPc, periodicPc, upd, installed, failures>>
    /\ UNCHANGED matchVars
    /\ UNCHANGED seqVars

\* client.Do returns an error: 502
Upstream_Fails(r) ==
    /\ handler[r].pc = "await"
    /\ handler' = [handler EXCEPT ![r].pc = "done", ![r].status = BadGatewayStatus]
    /\ UNCHANGED <<blocklist, blocklistMutex, mainPc, periodicPc, upd, installed, failures>>
    /\ UNCHANGED matchVars
    /\ UNCHANGED seqVars

\* client.Do returns the upstream's response, which is relayed
Upstream_Responds(r, status) ==
    /\ handler[r].pc = "await"
    /\ handler' = [handler EXCEPT ![r].pc = "done", ![r].status = status]
    /\ UNCHANGED <<blocklist, blocklistMutex, mainPc, periodicPc, upd, installed, failures>>
    /\ UNCHANGED matchVars
    /\ UNCHANGED seqVars

\* ServeHTTP has returned; the goroutine is free for the next request
ServeHTTP_Return(r) ==
    /\ handler[r].pc = "done"
    /\ handler' = [handler EXCEPT ![r] = IdleHandler]
    /\ UNCHANGED <<blocklist, blocklistMutex, mainPc, periodicPc, upd, installed, failures>>
    /\ UNCHANGED matchVars
    /\ UNCHANGED seqVars

(***************************************************************************)
(* The concurrent specification.                                           *)
(***************************************************************************)
MainStep == Main_LoadInitial \/ Main_StartPeriodic \/ Main_ListenAndServe

PeriodicStep == Periodic_Tick \/ Periodic_AfterUpdate

UpdateStep ==
    \/ UpdateBlocklist_Get
    \/ UpdateBlocklist_Decode
    \/ UpdateBlocklist_Lock
    \/ UpdateBlocklist_LockAcquired
    \/ UpdateBlocklist_Make
    \/ UpdateBlocklist_Fill
    \/ UpdateBlocklist_ReturnNil

PolicySourceStep ==
    \/ PolicySource_Unreachable
    \/ \E status \in PolicyStatuses, body \in PolicyBodies : PolicySource_Responds(status, body)

HandlerStep(r) ==
    \/ IsBlocked_RLock(r)
    \/ IsBlocked_Exact(r)
    \/ IsBlocked_Parent(r)
    \/ IsBlocked_Return(r)
    \/ serveBlockedPage(r)
    \/ forwardRequest_Do(r)
    \/ ServeHTTP_Return(r)

ClientStep(r) == \E req \in Requests : ServeHTTP_Start(r, req)

UpstreamStep(r) ==
    \/ Upstream_Fails(r)
    \/ \E status \in UpstreamStatuses : Upstream_Responds(r, status)

Next ==
    \/ MainStep
    \/ PeriodicStep
    \/ UpdateStep
    \/ PolicySourceStep
    \/ \E r \in Reqs : HandlerStep(r) \/ ClientStep(r) \/ UpstreamStep(r)

Spec == Init /\ [][Next]_vars

(***************************************************************************)
(* Startup and the refresh loop alone, with the fairness the Go scheduler  *)
(* and the ticker give: a goroutine that can take a step takes it, and the *)
(* ticker fires.  Nothing makes the policy source answer.                  *)
(***************************************************************************)
RefreshNext == MainStep \/ PeriodicStep \/ UpdateStep \/ PolicySourceStep

FairSpec ==
    /\ Init
    /\ [][RefreshNext]_vars
    /\ WF_vars(MainStep)
    /\ WF_vars(PeriodicStep)
    /\ WF_vars(UpdateStep)

(***************************************************************************)
(* One refresh that succeeds, then one IsBlocked call, over every document *)
(* and every host within the bounds.                                       *)
(***************************************************************************)
\* UpdateBlocklist runs to its return nil on a 200 answer holding doc
Match_UpdateBlocklist(doc) ==
    /\ mPc = "start"
    /\ blocklist' = Rebuild(doc)
    /\ policyDoc' = doc
    /\ mPc' = "installed"
    /\ UNCHANGED <<lookupHost, lookupResult>>
    /\ UNCHANGED proxyVars
    /\ UNCHANGED seqVars

\* IsBlocked(host) runs to its return
Match_IsBlocked(host) ==
    /\ mPc = "installed"
    /\ lookupHost' = host
    /\ lookupResult' = IsBlocked(blocklist, host)
    /\ mPc' = "looked"
    /\ UNCHANGED <<blocklist, policyDoc>>
    /\ UNCHANGED proxyVars
    /\ UNCHANGED seqVars

MatchNext ==
    \/ \E doc \in MatchDocs : Match_UpdateBlocklist(doc)
    \/ \E host \in Hosts : Match_IsBlocked(host)

MatchSpec == Init /\ [][MatchNext]_vars

(***************************************************************************)
(* Helpers of the properties, written without Split and Join.              *)
(***************************************************************************)
\* needle occurs in hay as a contiguous run
Contains(hay, needle) ==
    \E i \in 1..(Len(hay) - Len(needle) + 1) : SubSeq(hay, i, i + Len(needle) - 1) = needle

HasColon(s) == \E k \in 1..Len(s) : s[k] = ":"

\* s cut before its first colon
BeforeColon(s) ==
    IF HasColon(s)
    THEN LET k == CHOOSE j \in 1..Len(s) : s[j] = ":" /\ \A q \in 1..(j - 1) : s[q] # ":"
         IN  SubSeq(s, 1, k - 1)
    ELSE s

\* the strings left of d after dropping one or more leading labels
LabelSuffixes(d) == {SubSeq(d, k + 1, Len(d)) : k \in {j \in 1..Len(d) : d[j] = "."}}

\* h is P + "." + d for a non-empty P without a port separator
IsSubdomainOf(h, d) ==
    \E k \in 2..Len(h) :
        /\ h[k] = "."
        /\ SubSeq(h, k + 1, Len(h)) = d
        /\ ~HasColon(SubSeq(h, 1, k - 1))

LowerDoc(doc) == [i \in 1..Len(doc) |-> ToLower(doc[i])]

ForwardPcs == {"forward", "await"}

(***************************************************************************)
(* The properties.                                                         *)
(***************************************************************************)
\* C1: a handler is in forwardRequest, or has issued an outbound request, only
\* when IsBlocked has returned false for the host ServeHTTP took from the request.
C1_ForwardOnlyAfterAllow ==
    \A r \in Reqs :
        (handler[r].pc \in ForwardPcs \/ handler[r].outbound > 0)
            => /\ handler[r].decided
               /\ handler[r].verdict = FALSE
               /\ handler[r].host = RequestHost(handler[r].req)

\* C1 witness: an allowed request has been forwarded and waits for the upstream.
C1_Witness ==
    \E r \in Reqs :
        /\ handler[r].pc = "await"
        /\ handler[r].outbound = 1
        /\ handler[r].decided
        /\ handler[r].verdict = FALSE

\* C2: a request IsBlocked reported blocked is never forwarded and issues no
\* outbound request, and its response is 403 with an HTML body containing the host.
C2_BlockedGets403AndNoOutbound ==
    \A r \in Reqs :
        (handler[r].decided /\ handler[r].verdict = TRUE)
            => /\ handler[r].outbound = 0
               /\ handler[r].pc \notin ForwardPcs
               /\ handler[r].pc = "done"
                    => /\ handler[r].status = 403
                       /\ handler[r].ctype = "text/html; charset=utf-8"
                       /\ Contains(handler[r].body, handler[r].host)

\* C2 witness: a blocked request with a non-empty host has got its response.
C2_Witness ==
    \E r \in Reqs :
        /\ handler[r].pc = "done"
        /\ handler[r].verdict = TRUE
        /\ handler[r].status = 403
        /\ handler[r].host # s_empty

\* C3: every read of the map inside one IsBlocked call sees the same set, that
\* set is the one current when the call took the read lock or the complete set
\* of the concurrent refresh, and the verdict is IsBlocked of that set.
C3_LookupSeesOneCompleteSet ==
    \A r \in Reqs :
        handler[r].pc \in LookupPcs
            => /\ handler[r].seen \subseteq (handler[r].old \cup {installed} \cup NewSets)
               /\ Cardinality(handler[r].seen) <= 1
               /\ handler[r].decided = (handler[r].pc = "runlock")
               /\ handler[r].pc = "runlock"
                    => \E s \in handler[r].seen :
                          handler[r].verdict = IsBlocked(s, handler[r].host)

\* C3 witness: a lookup has its verdict from the old set while a refresh with a
\* different set waits for the write lock.
C3_Witness ==
    \E r \in Reqs :
        /\ handler[r].pc = "runlock"
        /\ upd.pc = "lockWait"
        /\ Rebuild(upd.policy) # installed
        /\ handler[r].seen = {installed}
        /\ installed # {}

\* C4: every entry D of the current blocklist is blocked, and so is every
\* P + "." + D.
C4_EntriesAndSubdomainsBlocked ==
    mPc = "looked"
        => ((\E d \in blocklist : lookupHost = d \/ IsSubdomainOf(lookupHost, d))
                => lookupResult = TRUE)

\* C5 as stated: a host that is not in the blocklist and has no label-suffix in
\* it is allowed.
C5_AsStated ==
    mPc = "looked"
        => ((lookupHost \notin blocklist /\ LabelSuffixes(lookupHost) \cap blocklist = {})
                => lookupResult = FALSE)

\* C5 amended: a host is allowed when, cut before its port and lowercased, it
\* is not in the blocklist and has no label-suffix in it.
C5_UnlistedNormalizedHostAllowed ==
    mPc = "looked"
        => LET d == ToLower(BeforeColon(lookupHost))
           IN  (d \notin blocklist /\ LabelSuffixes(d) \cap blocklist = {})
                   => lookupResult = FALSE

\* C5 witness: with a.a blocked, aa.a (a sibling that contains a.a as a
\* substring) has been looked up and is allowed.
C5_Witness ==
    /\ mPc = "looked"
    /\ s_a_a \in blocklist
    /\ lookupHost = <<"a", "a", ".", "a">>
    /\ lookupResult = FALSE

\* C6: the verdict for h + ":" + p, h without a colon, is the verdict for h.
C6_PortIgnored ==
    mPc = "looked"
        => (HasColon(lookupHost)
                => lookupResult = IsBlocked(blocklist, BeforeColon(lookupHost)))

\* C6 witness: a host with a port has been looked up and is blocked.
C6_Witness ==
    /\ mPc = "looked"
    /\ HasColon(lookupHost)
    /\ BeforeColon(lookupHost) # s_empty
    /\ lookupResult = TRUE

C8_FailedUpdateChangesNothing ==
    upd.pc = "returned"
        => /\ (upd.netErr \/ upd.status \notin 200..299 \/ upd.body.kind = "malformed") => upd.err
           /\ upd.err
                => /\ blocklist = upd.before
                   /\ ~upd.locked
                   /\ ~blocklistMutex.writer
                   /\ ~blocklistMutex.pending

\* C8 witness: a periodic refresh has failed on a bad answer while a non-empty
\* blocklist was current.
C8_Witness ==
    /\ periodicPc = "updating"
    /\ upd.pc = "returned"
    /\ upd.err
    /\ ~upd.netErr
    /\ blocklist # {}

\* C9: whenever a refresh attempt has returned an error, the periodic loop
\* starts another attempt.
C9_FailedRefreshIsFollowedByAnother ==
    (upd.pc = "returned" /\ upd.err) ~> (periodicPc = "updating" /\ upd.pc = "get")

\* C9 witness: the loop starts an attempt after MaxFailures failures in a row.
C9_Witness ==
    /\ periodicPc = "updating"
    /\ upd.pc = "get"
    /\ failures = MaxFailures

\* C10: main eventually starts the periodic refresh and serves requests,
\* whatever the policy source does.
C10_StartupEventuallyServes ==
    <>(mainPc = "serving" /\ periodicPc # "notStarted")

(***************************************************************************)
(* One ServeHTTP call after one refresh, with forwardRequest in detail:    *)
(* the target URL, the single client.Do, the redirect policy, the timeout, *)
(* and the copy of the headers, the status and the body.                   *)
(***************************************************************************)
s_amp_a == <<"&", ".", "a">>
s_a_pct == <<"a", "%">>

\* the proxy's own listen address as a client names it (localhost:8080)
s_self == <<"l", ":", "8">>

\* the request targets of the origin form: the root path, and the "*" that
\* net/http parses into a URL whose Path is "*" for any method
s_slash == <<"/">>
s_star == <<"*">>

\* the requests as they come over the wire, by the host and the path of the
\* request target and the Host header: a proxy-style request with an absolute
\* URL, an origin-form request with a Host header, an HTTP/1.0 request without
\* a Host header, a host with an HTML metacharacter, a Host header with a
\* broken percent escape, an absolute URL with a Host header naming another
\* host, a request sent to the proxy as if it were the destination, and a
\* request for "*"
WireRequests ==
    { [uriHost |-> s_a_a, path |-> s_slash, hostHeader |-> s_a_a],
      [uriHost |-> s_empty, path |-> s_slash, hostHeader |-> s_a],
      [uriHost |-> s_empty, path |-> s_slash, hostHeader |-> s_empty],
      [uriHost |-> s_amp_a, path |-> s_slash, hostHeader |-> s_amp_a],
      [uriHost |-> s_empty, path |-> s_slash, hostHeader |-> s_a_pct],
      [uriHost |-> s_a_a, path |-> s_slash, hostHeader |-> s_aa],
      [uriHost |-> s_empty, path |-> s_slash, hostHeader |-> s_self],
      [uriHost |-> s_empty, path |-> s_star, hostHeader |-> s_a_a] }

\* the *http.Request the server of main hands to ServeHTTP: net/http takes
\* r.Host from the request target when that names a host and from the Host
\* header otherwise
ReadRequest(wire) ==
    [Host |-> IF wire.uriHost # s_empty THEN wire.uriHost ELSE wire.hostHeader,
     URLHost |-> wire.uriHost,
     Path |-> wire.path,
     absolute |-> wire.uriHost # s_empty,
     HostHeader |-> wire.hostHeader]

FwdRequests == {ReadRequest(wire) : wire \in WireRequests}

\* the documents of the refresh: the empty policy and the two of PolicyDocs
FwdDocs == {<<>>} \cup PolicyDocs

\* what an upstream may answer: a page with a multi-valued header and a body
\* of two chunks, a redirect, and a status line with the three digits 099,
\* which the client parses into StatusCode 99
UpstreamResponses ==
    { [status |-> 200,
       header |-> [NoHeader EXCEPT !["Content-Type"] = <<"text/plain">>,
                                   !["Set-Cookie"] = <<"a=1", "b=2">>],
       body |-> <<"chunk1", "chunk2">>],
      [status |-> 301,
       header |-> [NoHeader EXCEPT !["Location"] = <<"http://a/">>],
       body |-> <<>>],
      [status |-> 99, header |-> NoHeader, body |-> <<>>] }

\* the codes ResponseWriter.WriteHeader takes; it panics on any other
ValidStatus(code) == code >= 100 /\ code <= 999

\* the host that parsing a URL finds after "scheme://": what comes before the
\* first "/"
Authority(rest) ==
    LET slashes == {k \in 1..Len(rest) : rest[k] = "/"}
    IN  IF slashes = {} THEN rest
        ELSE SubSeq(rest, 1, (CHOOSE k \in slashes : \A j \in slashes : k <= j) - 1)

\* the host of targetURL: r.URL.String() when it starts with "http", else
\* scheme://r.Host immediately followed by r.URL.Path
TargetHost(req) == IF req.absolute THEN req.URLHost ELSE Authority(req.Host \o req.Path)

\* http.NewRequest parses targetURL; a "%" that starts no escape makes it fail
UrlParses(host) == \A k \in 1..Len(host) : host[k] # "%"

InternalErrorStatus == 500

\* Client.Timeout in seconds; Go takes zero as no timeout
ForwardTimeout == 30

HasForwardTimeout == ForwardTimeout > 0

IsRedirect(resp) == resp.status \in 300..399 /\ resp.header["Location"] # <<>>

\* mutant: the default policy, redirects are followed
FollowRedirectDefault(resp) == IsRedirect(resp)

\* CheckRedirect returns http.ErrUseLastResponse: no response is followed
FollowRedirect(resp) == FALSE

\* mutant: a failed attempt is tried once more
RetryAfterDoError(outbound) == IF outbound < 2 THEN "do" ELSE "badGateway"

\* if err != nil after client.Do: the 502 branch, whatever was attempted
AfterDoError(outbound) == "badGateway"

\* http.Header.Add: the value is appended to the values of the key
HeaderAdd(h, k, v) == [h EXCEPT ![k] = Append(@, v)]

\* for _, value := range values { w.Header().Add(key, value) }
RECURSIVE AddAll(_, _, _)
AddAll(h, k, values) ==
    IF values = <<>> THEN h
    ELSE AddAll(HeaderAdd(h, k, Head(values)), k, Tail(values))

\* the keys a range over the header visits
KeysOf(h) == {k \in HeaderKeys : h[k] # <<>>}

\* http.Error(w, msg, code) and the return that follows it
HttpError(f, msg, code, cause) ==
    [f EXCEPT !.pc = "done",
              !.wHeader = [f.wHeader EXCEPT !["Content-Type"] = <<"text/plain; charset=utf-8">>,
                                            !["X-Content-Type-Options"] = <<"nosniff">>],
              !.wStatus = code,
              !.wBody = <<msg>>,
              !.log = f.log \o <<"header", "status", "body">>,
              !.cause = cause]

\* UpdateBlocklist runs to its return nil on a 200 answer holding doc
Fwd_UpdateBlocklist(doc) ==
    /\ fw.pc = "start"
    /\ blocklist' = Rebuild(doc)
    /\ fw' = [fw EXCEPT !.pc = "idle"]
    /\ UNCHANGED <<agent, device, source>>
    /\ UNCHANGED proxyVars
    /\ UNCHANGED matchVars

\* ServeHTTP up to the return of IsBlocked
Fwd_ServeHTTP(req) ==
    /\ fw.pc = "idle"
    /\ LET host == RequestHost(req)
           verdict == IsBlocked(blocklist, host)
       IN  fw' = [fw EXCEPT !.pc = DispatchTarget(verdict), !.req = req, !.host = host,
                            !.lookedUp = TRUE, !.verdict = verdict]
    /\ UNCHANGED <<blocklist, agent, device, source>>
    /\ UNCHANGED proxyVars
    /\ UNCHANGED matchVars

\* serveBlockedPage(w, host) and the return of ServeHTTP
Fwd_serveBlockedPage ==
    /\ fw.pc = "blockedPage"
    /\ fw' = [fw EXCEPT !.pc = "done",
                        !.wHeader = [fw.wHeader EXCEPT
                                        !["Content-Type"] = <<"text/html; charset=utf-8">>],
                        !.wStatus = BlockedStatus,
                        !.wBody = BlockPage(fw.host),
                        !.log = <<"header", "status", "body">>]
    /\ UNCHANGED <<blocklist, agent, device, source>>
    /\ UNCHANGED proxyVars
    /\ UNCHANGED matchVars

\* forwardRequest: the target URL and http.NewRequest, 500 when it fails
Fwd_NewRequest ==
    /\ fw.pc = "forward"
    /\ LET target == TargetHost(fw.req)
           f == [fw EXCEPT !.forwarded = TRUE, !.target = target]
       IN  fw' = IF UrlParses(target)
                 THEN [f EXCEPT !.pc = "do"]
                 ELSE HttpError(f, "Error creating proxy request", InternalErrorStatus, "parse")
    /\ UNCHANGED <<blocklist, agent, device, source>>
    /\ UNCHANGED proxyVars
    /\ UNCHANGED matchVars

\* client.Do(proxyReq): a URL without a host is refused before anything is
\* sent, else the outbound request is issued
Fwd_Do ==
    /\ fw.pc = "do"
    /\ fw' = IF fw.target = s_empty
             THEN [fw EXCEPT !.pc = AfterDoError(fw.outbound), !.cause = "nohost"]
             ELSE [fw EXCEPT !.pc = "await", !.outbound = @ + 1]
    /\ UNCHANGED <<blocklist, agent, device, source>>
    /\ UNCHANGED proxyVars
    /\ UNCHANGED matchVars

\* the upstream cannot be connected to, or the send fails
FwdUpstream_Fails ==
    /\ fw.pc = "await"
    /\ fw' = [fw EXCEPT !.pc = AfterDoError(fw.outbound), !.cause = "connect"]
    /\ UNCHANGED <<blocklist, agent, device, source>>
    /\ UNCHANGED proxyVars
    /\ UNCHANGED matchVars

\* the upstream's status line and headers arrive: the client follows the
\* response or client.Do returns it
FwdUpstream_Responds(resp) ==
    /\ fw.pc = "await"
    /\ fw' = IF FollowRedirect(resp)
             THEN [fw EXCEPT !.outbound = @ + 1, !.followed = TRUE]
             ELSE [fw EXCEPT !.pc = "copyHeaders", !.resp = resp, !.todo = KeysOf(resp.header)]
    /\ UNCHANGED <<blocklist, agent, device, source>>
    /\ UNCHANGED proxyVars
    /\ UNCHANGED matchVars

\* Client.Timeout passes before the response has come: client.Do returns an error
Fwd_Timeout ==
    /\ HasForwardTimeout
    /\ fw.pc = "await"
    /\ fw' = [fw EXCEPT !.pc = AfterDoError(fw.outbound), !.cause = "timeout"]
    /\ UNCHANGED <<blocklist, agent, device, source>>
    /\ UNCHANGED proxyVars
    /\ UNCHANGED matchVars

\* mutant: the 502 branch empties the blocklist
Fwd_BadGatewayDropsBlocklist ==
    /\ fw.pc = "badGateway"
    /\ fw' = HttpError(fw, "Error forwarding request", BadGatewayStatus, fw.cause)
    /\ blocklist' = {}
    /\ UNCHANGED <<agent, device, source>>
    /\ UNCHANGED proxyVars
    /\ UNCHANGED matchVars

\* http.Error(w, "Error forwarding request", http.StatusBadGateway); return
Fwd_BadGateway ==
    /\ fw.pc = "badGateway"
    /\ fw' = HttpError(fw, "Error forwarding request", BadGatewayStatus, fw.cause)
    /\ UNCHANGED <<blocklist, agent, device, source>>
    /\ UNCHANGED proxyVars
    /\ UNCHANGED matchVars

\* one round of the range over resp.Header, in the order the map gives
Fwd_CopyHeader(k) ==
    /\ fw.pc = "copyHeaders"
    /\ k \in fw.todo
    /\ fw' = [fw EXCEPT !.wHeader = AddAll(fw.wHeader, k, fw.resp.header[k]),
                        !.todo = @ \ {k},
                        !.log = Append(@, "header")]
    /\ UNCHANGED <<blocklist, agent, device, source>>
    /\ UNCHANGED proxyVars
    /\ UNCHANGED matchVars

\* w.WriteHeader(resp.StatusCode); on a code it does not take it panics, the
\* handler is left with nothing sent and the server closes the connection
Fwd_WriteHeader ==
    /\ fw.pc = "copyHeaders"
    /\ fw.todo = {}
    /\ fw' = IF ValidStatus(fw.resp.status)
             THEN [fw EXCEPT !.pc = "copyBody", !.wStatus = fw.resp.status,
                             !.log = Append(@, "status")]
             ELSE [fw EXCEPT !.pc = "done", !.cause = "panic"]
    /\ UNCHANGED <<blocklist, agent, device, source>>
    /\ UNCHANGED proxyVars
    /\ UNCHANGED matchVars

\* the upstream sends the next chunk of its body
FwdUpstream_SendsChunk ==
    /\ fw.pc \in {"copyHeaders", "copyBody"}
    /\ fw.delivered < Len(fw.resp.body)
    /\ fw' = [fw EXCEPT !.delivered = @ + 1]
    /\ UNCHANGED <<blocklist, agent, device, source>>
    /\ UNCHANGED proxyVars
    /\ UNCHANGED matchVars

\* io.Copy: a chunk that has arrived is written to the client
Fwd_CopyChunk ==
    /\ fw.pc = "copyBody"
    /\ Len(fw.wBody) < fw.delivered
    /\ fw' = [fw EXCEPT !.wBody = Append(@, fw.resp.body[Len(fw.wBody) + 1]),
                        !.log = Append(@, "body")]
    /\ UNCHANGED <<blocklist, agent, device, source>>
    /\ UNCHANGED proxyVars
    /\ UNCHANGED matchVars

\* io.Copy reaches the end of the body; forwardRequest and ServeHTTP return
Fwd_CopyDone ==
    /\ fw.pc = "copyBody"
    /\ Len(fw.wBody) = Len(fw.resp.body)
    /\ fw' = [fw EXCEPT !.pc = "done"]
    /\ UNCHANGED <<blocklist, agent, device, source>>
    /\ UNCHANGED proxyVars
    /\ UNCHANGED matchVars

\* Client.Timeout passes while io.Copy waits for the rest of the body: the read
\* fails, io.Copy's error is dropped, forwardRequest and ServeHTTP return
Fwd_BodyTimeout ==
    /\ HasForwardTimeout
    /\ fw.pc = "copyBody"
    /\ Len(fw.wBody) = fw.delivered
    /\ fw.delivered < Len(fw.resp.body)
    /\ fw' = [fw EXCEPT !.pc = "done", !.cause = "bodyTimeout"]
    /\ UNCHANGED <<blocklist, agent, device, source>>
    /\ UNCHANGED proxyVars
    /\ UNCHANGED matchVars

FwdHandlerStep ==
    \/ Fwd_serveBlockedPage
    \/ Fwd_NewRequest
    \/ Fwd_Do
    \/ Fwd_BadGateway
    \/ \E k \in HeaderKeys : Fwd_CopyHeader(k)
    \/ Fwd_WriteHeader
    \/ Fwd_CopyChunk
    \/ Fwd_CopyDone

FwdTimerStep == Fwd_Timeout \/ Fwd_BodyTimeout

\* the client closes its connection while the request is with the upstream;
\* forwardRequest built proxyReq with http.NewRequest, without r.Context(),
\* and looks at nothing that would tell it
FwdClient_Disconnects ==
    /\ fw.pc = "await"
    /\ ~fw.clientGone
    /\ fw' = [fw EXCEPT !.clientGone = TRUE]
    /\ UNCHANGED <<blocklist, agent, device, source>>
    /\ UNCHANGED proxyVars
    /\ UNCHANGED matchVars

FwdUpstreamStep ==
    \/ FwdUpstream_Fails
    \/ \E resp \in UpstreamResponses : FwdUpstream_Responds(resp)
    \/ FwdUpstream_SendsChunk

ForwardNext ==
    \/ \E doc \in FwdDocs : Fwd_UpdateBlocklist(doc)
    \/ \E req \in FwdRequests : Fwd_ServeHTTP(req)
    \/ FwdHandlerStep
    \/ FwdTimerStep
    \/ FwdUpstreamStep
    \/ FwdClient_Disconnects

ForwardSpec == Init /\ [][ForwardNext]_vars

\* the same with the fairness the Go scheduler and the client's timer give: the
\* handler goroutine takes the step it can take and the timer fires.  Nothing
\* makes the upstream answer.
ForwardFairSpec ==
    /\ Init
    /\ [][ForwardNext]_vars
    /\ WF_vars(FwdHandlerStep)
    /\ WF_vars(FwdTimerStep)

(***************************************************************************)
(* The device agent: one SendReportWithRetry call.                         *)
(***************************************************************************)
MaxRetriesBound == 5

\* the errors SendReport returns: client.Do failed, the body could not be
\* read, the server answered with a status other than 200
SendErrors == {"send", "read", "status"}

\* the factor of waitTime := time.Duration(attempt) * 2 * time.Second
RetryWaitFactor == 2

\* the seconds slept after the attempt-th failed attempt
RetryWait(attempt) == attempt * RetryWaitFactor

\* SendReportWithRetry(status, maxRetries) is called; attempt := 1
Agent_Call(maxRetries) ==
    /\ agent.pc = "idle"
    /\ agent' = [IdleAgent EXCEPT !.pc = "loop", !.maxRetries = maxRetries, !.attempt = 1]
    /\ UNCHANGED <<blocklist, fw, device, source>>
    /\ UNCHANGED proxyVars
    /\ UNCHANGED matchVars

\* attempt <= maxRetries: r.SendReport(status) is called
Agent_SendReport ==
    /\ agent.pc = "loop"
    /\ agent.attempt <= agent.maxRetries
    /\ agent' = [agent EXCEPT !.pc = "sending", !.sends = @ + 1]
    /\ UNCHANGED <<blocklist, fw, device, source>>
    /\ UNCHANGED proxyVars
    /\ UNCHANGED matchVars

\* SendReport returns nil and so does SendReportWithRetry
Agent_SendSucceeds ==
    /\ agent.pc = "sending"
    /\ agent' = [agent EXCEPT !.pc = "returnedNil"]
    /\ UNCHANGED <<blocklist, fw, device, source>>
    /\ UNCHANGED proxyVars
    /\ UNCHANGED matchVars

\* mutant: the agent sleeps after every failed attempt, the last included
Agent_SendFailsAlwaysSleeps(err) ==
    /\ agent.pc = "sending"
    /\ agent' = [agent EXCEPT !.pc = "sleeping", !.lastErr = err,
                              !.waits = Append(@, RetryWait(agent.attempt))]
    /\ UNCHANGED <<blocklist, fw, device, source>>
    /\ UNCHANGED proxyVars
    /\ UNCHANGED matchVars

\* SendReport returns an error: it is kept, and before any attempt but the
\* last the agent sleeps
Agent_SendFails(err) ==
    /\ agent.pc = "sending"
    /\ agent' = IF agent.attempt < agent.maxRetries
                THEN [agent EXCEPT !.pc = "sleeping", !.lastErr = err,
                                   !.waits = Append(@, RetryWait(agent.attempt))]
                ELSE [agent EXCEPT !.pc = "loop", !.lastErr = err, !.attempt = @ + 1]
    /\ UNCHANGED <<blocklist, fw, device, source>>
    /\ UNCHANGED proxyVars
    /\ UNCHANGED matchVars

\* time.Sleep(waitTime) returns; attempt++
Agent_Wake ==
    /\ agent.pc = "sleeping"
    /\ agent' = [agent EXCEPT !.pc = "loop", !.attempt = @ + 1]
    /\ UNCHANGED <<blocklist, fw, device, source>>
    /\ UNCHANGED proxyVars
    /\ UNCHANGED matchVars

\* attempt > maxRetries: return fmt.Errorf("failed after %d attempts: %w", ...)
Agent_ReturnError ==
    /\ agent.pc = "loop"
    /\ agent.attempt > agent.maxRetries
    /\ agent' = [agent EXCEPT !.pc = "returnedErr"]
    /\ UNCHANGED <<blocklist, fw, device, source>>
    /\ UNCHANGED proxyVars
    /\ UNCHANGED matchVars

AgentNext ==
    \/ \E maxRetries \in 0..MaxRetriesBound : Agent_Call(maxRetries)
    \/ Agent_SendReport
    \/ Agent_SendSucceeds
    \/ \E err \in SendErrors : Agent_SendFails(err)
    \/ Agent_Wake
    \/ Agent_ReturnError

AgentSpec == Init /\ [][AgentNext]_vars

\* the steps of a call that has begun: the goroutine runs, time.Sleep ends, and
\* SendReport returns because its client has Timeout: 10 * time.Second
AgentRunStep ==
    \/ Agent_SendReport
    \/ Agent_SendSucceeds
    \/ \E err \in SendErrors : Agent_SendFails(err)
    \/ Agent_Wake
    \/ Agent_ReturnError

AgentFairSpec == AgentSpec /\ WF_vars(AgentRunStep)

(***************************************************************************)
(* The properties of forwarding, of the refresh and of the agent.          *)
(***************************************************************************)
\* the log has every header before the status and the status before the body
InOrder(log) ==
    \A i, j \in 1..Len(log) :
        i < j => /\ ~(log[i] = "status" /\ log[j] = "header")
                 /\ ~(log[i] = "body" /\ log[j] \in {"header", "status"})

StatusWrites(log) == Cardinality({i \in 1..Len(log) : log[i] = "status"})

HtmlMeta == {"<", ">", "\"", "&"}

\* C11: forwardRequest issues at most one outbound request, and when the
\* attempt fails (no connection, a send error, no answer in time) the client
\* gets 502 and nothing is attempted again.
C11_OneAttemptThen502 ==
    /\ fw.outbound <= 1
    /\ fw.pc = "badGateway" => fw.cause \in {"nohost", "connect", "timeout"}
    /\ (fw.pc = "done" /\ fw.cause \in {"nohost", "connect", "timeout"})
            => /\ fw.wStatus = 502
               /\ fw.resp = NoResp

\* C11 witness: the one outbound request could not connect and the client has
\* its 502.
C11_Witness ==
    /\ fw.pc = "done"
    /\ fw.cause = "connect"
    /\ fw.outbound = 1
    /\ fw.wStatus = 502

\* C12: no request goes to a Location target, and a redirect the upstream
\* answers with reaches the client with its status and its Location header.
C12_RedirectRelayedNotFollowed ==
    /\ ~fw.followed
    /\ IsRedirect(fw.resp)
            => /\ fw.outbound = 1
               /\ fw.pc = "done"
                    => /\ fw.wStatus = fw.resp.status
                       /\ fw.wHeader["Location"] = fw.resp.header["Location"]

\* C12 witness: the upstream answered 301 with a Location and the client has
\* got the 301.
C12_Witness ==
    /\ fw.pc = "done"
    /\ IsRedirect(fw.resp)
    /\ fw.wStatus = 301
    /\ fw.wHeader["Location"] # <<>>
    /\ fw.outbound = 1

\* C13: whenever the upstream returned a response, the client gets
\* its status, its headers with all their values and its body, in that order.
C13_AsStated ==
    (fw.pc = "done" /\ fw.resp # NoResp)
        => /\ fw.wStatus = fw.resp.status
           /\ fw.wHeader = fw.resp.header
           /\ fw.wBody = fw.resp.body
           /\ InOrder(fw.log)

\* C14: a request with an empty Host and an empty URL host gets a 4xx, and
\* neither IsBlocked nor forwardRequest is called for it.
C14_NoHostIsClientError ==
    (fw.pc = "done" /\ fw.req.Host = s_empty /\ fw.req.URLHost = s_empty)
        => /\ fw.wStatus \in 400..499
           /\ ~fw.lookedUp
           /\ ~fw.forwarded

\* C15: the body of the block page has no HTML metacharacter taken as it is
\* from the host (the host is what lies between the two parts of the template).
C15_HostEmbeddedEscaped ==
    (fw.pc = "done" /\ fw.wStatus = BlockedStatus)
        => /\ fw.wBody = BlockPage(fw.host)
           /\ \A k \in 2..(Len(fw.wBody) - 1) : fw.wBody[k] \notin HtmlMeta

\* C16: as long as a lookup runs, the map it reads is the set the last
\* successful UpdateBlocklist installed, no older one, and its verdict is
\* IsBlocked of that set.
C16_LookupUsesLatestInstalled ==
    \A r \in Reqs :
        handler[r].pc \in LookupPcs
            => /\ blocklist = installed
               /\ handler[r].old = {installed}
               /\ handler[r].seen \subseteq {installed}
               /\ handler[r].pc = "runlock"
                    => handler[r].verdict = IsBlocked(installed, handler[r].host)

\* C16 witness: after one refresh that failed and one that succeeded, a lookup
\* has its verdict from the installed set, which blocks its host.
C16_Witness ==
    \E r \in Reqs :
        /\ handler[r].pc = "runlock"
        /\ failures > 0
        /\ installed # {}
        /\ handler[r].seen = {installed}
        /\ handler[r].verdict = TRUE

\* C17: when UpdateBlocklist has returned nil the blocklist is the set of the
\* lowercased entries of the document, and a domain of the blocklist before
\* that is not in it and has no label-suffix in it is not blocked.
C17_RefreshReplacesWholesale ==
    (upd.pc = "returned" /\ ~upd.err)
        => /\ blocklist = {ToLower(upd.policy[k]) : k \in 1..Len(upd.policy)}
           /\ installed = blocklist
           /\ \A d \in upd.before :
                (d \notin blocklist /\ LabelSuffixes(d) \cap blocklist = {})
                    => ~IsBlocked(blocklist, d)

\* C17 witness: a refresh has returned nil and a domain that was blocked
\* before it is not blocked after it.
C17_Witness ==
    /\ upd.pc = "returned"
    /\ ~upd.err
    /\ \E d \in upd.before : d \notin blocklist /\ ~IsBlocked(blocklist, d)

\* C18: a request whose handler has started gets a response and its handler
\* returns, whatever the upstream does; an upstream that cannot be reached or
\* does not answer before the timeout gives 502.
C18_RequestCompletes ==
    /\ (fw.pc \notin {"start", "idle", "done"}) ~> (fw.pc = "done" /\ fw.wStatus # 0)
    /\ []((fw.pc = "done" /\ fw.cause \in {"connect", "timeout"})
              => fw.wStatus = BadGatewayStatus)

\* C19: a step of one request's handler (a failed forward included) changes
\* neither the blocklist nor any other request's handler, the verdict it
\* reaches is IsBlocked of its own host and the blocklist of that moment, and
\* it goes to the block page or to forwarding by that verdict alone.
C19_OutcomeOwnHostAndBlocklist ==
    [][\A r \in Reqs :
          handler'[r] # handler[r]
              => /\ blocklist' = blocklist
                 /\ installed' = installed
                 /\ \A q \in Reqs \ {r} : handler'[q] = handler[q]
                 /\ (handler[r].pc # "runlock" /\ handler'[r].pc = "runlock")
                        => handler'[r].verdict = IsBlocked(blocklist, handler'[r].host)
                 /\ handler'[r].pc = "blockedPage" => handler'[r].verdict
                 /\ handler'[r].pc \in ForwardPcs => ~handler'[r].verdict
                 /\ handler'[r].status = BlockedStatus => handler'[r].verdict]_vars

\* C19 witness: one request has failed in forwarding and got 502, another one
\* has been blocked and got 403.
C19_Witness ==
    \E r, q \in Reqs :
        /\ handler[r].pc = "done"
        /\ handler[r].status = BadGatewayStatus
        /\ handler[q].pc = "done"
        /\ handler[q].verdict = TRUE
        /\ handler[q].status = BlockedStatus

\* C20: each wait of SendReportWithRetry is twice the wait before it.
C20_EachWaitDoubles ==
    \A k \in 2..Len(agent.waits) : agent.waits[k] = 2 * agent.waits[k - 1]

(***************************************************************************)
(* The device agent: one CollectDeviceStatus call.                         *)
(***************************************************************************)
\* the highest disk usage read, in tenths of a percent
MaxUsageTenths == 1000

\* the number of tenths in one percent
UsageScale == 10

\* DiskThreshold = 90.0, in percent
DiskThreshold == 90

StatusHealthy == "HEALTHY"

StatusUnhealthy == "UNHEALTHY"

\* what GetDiskUsage may return without an error: strconv.ParseFloat and the
\* division of getDiskUsageWindows give a number or NaN
DiskUsages ==
    { [nan |-> TRUE, tenths |-> 0] }
      \cup { [nan |-> FALSE, tenths |-> t] : t \in 0..MaxUsageTenths }

\* mutant: the threshold itself is unhealthy
AtOrOverThreshold(usage) == ~usage.nan /\ usage.tenths >= DiskThreshold * UsageScale

\* diskUsage > DiskThreshold; every comparison with NaN is false
OverThreshold(usage) == ~usage.nan /\ usage.tenths > DiskThreshold * UsageScale

\* hostname, err := sc.GetHostname()
Collect_GetHostname(ok) ==
    /\ device.pc = "hostname"
    /\ device' = IF ok THEN [device EXCEPT !.pc = "ip"]
                 ELSE [device EXCEPT !.pc = "returned", !.err = "hostname"]
    /\ UNCHANGED <<blocklist, fw, agent, source>>
    /\ UNCHANGED proxyVars
    /\ UNCHANGED matchVars

\* ip, err := sc.GetLocalIP()
Collect_GetLocalIP(ok) ==
    /\ device.pc = "ip"
    /\ device' = IF ok THEN [device EXCEPT !.pc = "disk"]
                 ELSE [device EXCEPT !.pc = "returned", !.err = "ip"]
    /\ UNCHANGED <<blocklist, fw, agent, source>>
    /\ UNCHANGED proxyVars
    /\ UNCHANGED matchVars

\* diskUsage, err := sc.GetDiskUsage() returns an error
Collect_GetDiskUsageFails ==
    /\ device.pc = "disk"
    /\ device' = [device EXCEPT !.pc = "returned", !.err = "disk"]
    /\ UNCHANGED <<blocklist, fw, agent, source>>
    /\ UNCHANGED proxyVars
    /\ UNCHANGED matchVars

\* diskUsage, err := sc.GetDiskUsage() returns a usage
Collect_GetDiskUsage(usage) ==
    /\ device.pc = "disk"
    /\ device' = [device EXCEPT !.pc = "evaluate", !.usage = usage]
    /\ UNCHANGED <<blocklist, fw, agent, source>>
    /\ UNCHANGED proxyVars
    /\ UNCHANGED matchVars

\* status and message from the usage, and the return of the DeviceStatus
Collect_Evaluate ==
    /\ device.pc = "evaluate"
    /\ device' = IF OverThreshold(device.usage)
                 THEN [device EXCEPT !.pc = "returned", !.status = StatusUnhealthy,
                         !.message = "Critical: Disk usage at %.2f%% (threshold: %.0f%%)"]
                 ELSE [device EXCEPT !.pc = "returned", !.status = StatusHealthy,
                         !.message = "All systems operational"]
    /\ UNCHANGED <<blocklist, fw, agent, source>>
    /\ UNCHANGED proxyVars
    /\ UNCHANGED matchVars

CollectNext ==
    \/ \E ok \in BOOLEAN : Collect_GetHostname(ok)
    \/ \E ok \in BOOLEAN : Collect_GetLocalIP(ok)
    \/ Collect_GetDiskUsageFails
    \/ \E usage \in DiskUsages : Collect_GetDiskUsage(usage)
    \/ Collect_Evaluate

CollectSpec == Init /\ [][CollectNext]_vars

\* C21: a returned DeviceStatus is UNHEALTHY exactly when the usage is a number
\* above 90 percent and HEALTHY otherwise, and its message is "All systems
\* operational" exactly when it is HEALTHY.
C21_UnhealthyExactlyAbove90 ==
    (device.pc = "returned" /\ device.err = "nil")
        => /\ device.status \in {"HEALTHY", "UNHEALTHY"}
           /\ (device.status = "UNHEALTHY") <=> (~device.usage.nan /\ device.usage.tenths > 900)
           /\ (device.message = "All systems operational") <=> (device.status = "HEALTHY")

\* C21 witness: a usage of exactly 90 percent has been reported HEALTHY.
C21_Witness ==
    /\ device.pc = "returned"
    /\ device.err = "nil"
    /\ ~device.usage.nan
    /\ device.usage.tenths = 900
    /\ device.status = "HEALTHY"
    /\ device.message = "All systems operational"

\* C22: every entry of an installed blocklist is lowercase, has no ":port" and
\* no trailing dot.
C22_InstalledEntriesNormalized ==
    mPc # "start"
        => \A e \in blocklist :
              /\ e = ToLower(e)
              /\ ~HasColon(e)
              /\ ~(Len(e) > 0 /\ e[Len(e)] = ".")

(***************************************************************************)
(* Startup and the refresh loop against a policy source whose document is  *)
(* edited between the fetches, with every status and body of FetchStatuses *)
(* and FetchBodies.  No request is served.                                 *)
(***************************************************************************)
\* mutant: an edit at the source is pushed into the proxy's blocklist
Source_EditPushes(body) ==
    /\ body # source
    /\ source' = body
    /\ blocklist' = Rebuild(body.blocked)
    /\ UNCHANGED <<fw, agent, device>>
    /\ UNCHANGED proxyVars
    /\ UNCHANGED matchVars

\* an administrator edits the document at the policy source
Source_Edit(body) ==
    /\ body # source
    /\ source' = body
    /\ UNCHANGED <<blocklist, fw, agent, device>>
    /\ UNCHANGED proxyVars
    /\ UNCHANGED matchVars

\* the policy source answers the GET with the document it has now
Source_Responds(status) == PolicySource_Responds(status, source)

FetchSourceStep ==
    \/ PolicySource_Unreachable
    \/ \E status \in FetchStatuses : Source_Responds(status)
    \/ \E body \in FetchBodies : Source_Edit(body)

FetchNext == MainStep \/ PeriodicStep \/ UpdateStep \/ FetchSourceStep

FetchSpec == Init /\ [][FetchNext]_vars

\* C23: a fetched document without a list of domains makes UpdateBlocklist
\* return an error and leaves the blocklist as it was.
C23_DocumentWithoutListIsFailure ==
    (upd.pc = "returned" /\ upd.body.kind = "nolist")
        => /\ upd.err
           /\ blocklist = upd.before

\* C24: UpdateBlocklist returns an error exactly when the request failed, the
\* status is not 2xx or the body is malformed, and then the blocklist is as it
\* was.
C24_FailsExactlyOnErrorNon2xxMalformed ==
    upd.pc = "returned"
        => /\ upd.err <=> (upd.netErr \/ upd.status \notin 200..299 \/ upd.body.kind = "malformed")
           /\ upd.status \notin 200..299 => blocklist = upd.before

\* C25: whenever the write lock is held or asked for, the answer of this
\* refresh has been received with status 200 and decoded.
C25_NoLockDuringFetch ==
    (blocklistMutex.writer \/ blocklistMutex.pending)
        => /\ upd.pc \in {"lockWait", "make", "fill"}
           /\ upd.status = 200
           /\ upd.body.kind \in {"list", "nolist"}
           /\ upd.policy = upd.body.blocked

\* C25 witness: the write lock is held and the entries of the decoded document
\* are being inserted.
C25_Witness ==
    /\ blocklistMutex.writer
    /\ upd.pc = "fill"
    /\ upd.policy # <<>>
    /\ upd.idx = 1

\* C26: in every state the current blocklist is a complete set: the one last
\* installed or the whole set of the fetched document.
C26_NeverPartial ==
    blocklist \in {installed, Rebuild(upd.policy)}

\* C30: an edit at the policy source changes neither the blocklist nor the
\* installed set; the blocklist changes only in steps of an UpdateBlocklist
\* that got a 200 and a decoded document, and the installed set only as such a
\* call returns nil.
C30_SourceEditWaitsForRefresh ==
    [][/\ source' # source => (blocklist' = blocklist /\ installed' = installed)
       /\ blocklist' # blocklist
            => /\ upd.pc \in {"make", "fill"}
               /\ upd.status = 200
               /\ upd.policy = upd.body.blocked
       /\ installed' # installed
            => /\ upd'.pc = "returned"
               /\ ~upd'.err
               /\ installed' = Rebuild(upd.policy)]_vars

\* C30 witness: the source serves a document other than the one installed,
\* the refresh loop waits for its next tick and the blocklist is the old one.
C30_Witness ==
    /\ periodicPc = "waitTick"
    /\ upd.pc = "idle"
    /\ installed # {}
    /\ blocklist = installed
    /\ source.kind = "list"
    /\ Rebuild(source.blocked) # blocklist

\* C27: while UpdateBlocklist holds the write lock no IsBlocked call is inside
\* its read section, and the two callers of UpdateBlocklist (main and the
\* refresh loop) are never inside it together; a handler is counted as a reader
\* exactly while its IsBlocked call is inside.
C27_WriterExclusive ==
    /\ blocklistMutex.writer
            => /\ blocklistMutex.readers = {}
               /\ \A r \in Reqs : handler[r].pc \notin LookupPcs
               /\ upd.pc \in {"make", "fill"}
    /\ \A r \in Reqs : (r \in blocklistMutex.readers) <=> (handler[r].pc \in LookupPcs)
    /\ ~(mainPc = "loading" /\ periodicPc = "updating")

\* C27 witness: UpdateBlocklist is inserting under the write lock while a
\* handler waits at RLock.
C27_Witness ==
    /\ blocklistMutex.writer
    /\ upd.pc = "fill"
    /\ \E r \in Reqs : handler[r].pc = "rlock"

\* C28: an IsBlocked call at RLock can enter whenever no writer holds the lock
\* or waits for it, however many readers are inside.
C28_ReadersDoNotBlockReaders ==
    \A r \in Reqs :
        (handler[r].pc = "rlock" /\ ~blocklistMutex.writer /\ ~blocklistMutex.pending)
            => ENABLED IsBlocked_RLock(r)

\* C28 witness: two IsBlocked calls are inside their read sections together.
C28_Witness ==
    /\ Cardinality(blocklistMutex.readers) >= 2
    /\ \A r \in blocklistMutex.readers : handler[r].pc \in LookupPcs

\* C29: the blocklist changes in no step of ServeHTTP, IsBlocked,
\* serveBlockedPage or forwardRequest, whichever way they end; it changes only
\* in the step of UpdateBlocklist.
C29_OnlyUpdateBlocklistWrites ==
    [][blocklist' # blocklist => (fw.pc = "start" /\ fw'.pc = "idle")]_vars

\* C29 witness: with a blocklist installed, forwardRequest has ended on its
\* error path with 500.
C29_Witness ==
    /\ fw.pc = "done"
    /\ fw.cause = "parse"
    /\ fw.wStatus = InternalErrorStatus
    /\ blocklist # {}

\* C31: the refresh loop does not exist before the startup call has returned,
\* an UpdateBlocklist call is in progress exactly while one of its two callers
\* is inside it and never both, a fetch begins only when the call before it
\* has returned and its set is current, and the set that becomes current is
\* the set of the document the running call fetched.
C31_RefreshesSequential ==
    /\ [](/\ mainPc \in {"load", "loading"} => periodicPc = "notStarted"
          /\ (upd.pc # "idle") <=> (mainPc = "loading" \/ periodicPc = "updating")
          /\ ~(mainPc = "loading" /\ periodicPc = "updating"))
    /\ [][/\ (upd'.pc = "get" /\ upd.pc # "get")
                => (upd.pc = "idle" /\ blocklist = installed /\ ~blocklistMutex.writer)
          /\ installed' # installed
                => (upd.pc = "fill" /\ installed' = Rebuild(upd.policy))]_vars

\* C31 witness: the loop's call inserts the entries of its document while the
\* set of an earlier call is the installed one.
C31_Witness ==
    /\ mainPc = "serving"
    /\ periodicPc = "updating"
    /\ upd.pc = "fill"
    /\ upd.idx > Len(upd.policy)
    /\ installed # {}
    /\ installed # Rebuild(upd.policy)

\* C32: every UpdateBlocklist call that has started returns.
C32_RefreshAttemptReturns ==
    (upd.pc # "idle") ~> (upd.pc = "returned")

\* C33: a forward whose client has gone while it waited for the upstream ends
\* as cancelled, relaying nothing of the upstream and not by the timeout.
C33_DisconnectAbandonsForward ==
    (fw.clientGone /\ fw.pc \notin {"await", "badGateway"})
        => /\ fw.cause = "canceled"
           /\ fw.resp = NoResp

\* C34: a handler that is past IsBlocked (at the block page, forwarding,
\* waiting for the upstream, or done) holds no read lock, and a refresh waiting
\* for the write lock gets it as soon as no handler is inside IsBlocked,
\* whatever the handlers outside are waiting for.
C34_NoReadLockOutsideIsBlocked ==
    /\ \A r \in Reqs :
          handler[r].pc \in {"blockedPage", "forward", "await", "done"}
              => r \notin blocklistMutex.readers
    /\ (upd.pc = "lockWait" /\ \A r \in Reqs : handler[r].pc \notin LookupPcs)
            => ENABLED UpdateBlocklist_LockAcquired

\* C34 witness: a refresh has taken the write lock while one handler waits for
\* its upstream and another writes the block page.
C34_Witness ==
    /\ upd.pc = "make"
    /\ blocklistMutex.writer
    /\ \E r \in Reqs : handler[r].pc = "await"
    /\ \E r \in Reqs : handler[r].pc = "blockedPage"

\* C35: for a request whose host is the proxy's own listen address no outbound
\* request is issued, and the response is an error.
C35_NoRequestToItself ==
    fw.req.Host = s_self
        => /\ fw.outbound = 0
           /\ fw.pc = "done" => fw.wStatus \in 400..599

\* C36: the host of the target URL that forwardRequest builds is the host
\* ServeHTTP gave to IsBlocked.
C36_TargetIsCheckedHost ==
    fw.forwarded => fw.target = fw.host

\* C37: a finished request has had its status written exactly once, 403 for a
\* blocked host, 500 when the outbound request could not be made, 502 when the
\* attempt failed, else the status of the upstream; no status is written twice.
C37_OneStatusPerRequest ==
    /\ StatusWrites(fw.log) <= 1
    /\ fw.pc = "done"
            => /\ StatusWrites(fw.log) = 1
               /\ fw.wStatus # 0
               /\ fw.verdict => fw.wStatus = 403
               /\ fw.cause = "parse" => fw.wStatus = 500
               /\ fw.cause \in {"nohost", "connect", "timeout"} => fw.wStatus = 502
               /\ fw.resp # NoResp => fw.wStatus = fw.resp.status
               /\ (~fw.verdict /\ fw.resp = NoResp) => fw.wStatus \in {500, 502}

\* C38: against a blocklist of normalized entries (not empty, lowercase, no
\* port, no trailing dot) the verdict for a host is the verdict for the host
\* followed by a dot.
C38_TrailingDotSameVerdict ==
    (/\ mPc = "looked"
     /\ \A e \in blocklist :
            e # s_empty /\ e = ToLower(e) /\ ~HasColon(e) /\ e[Len(e)] # ".")
        => lookupResult = IsBlocked(blocklist, lookupHost \o <<".">>)

\* C39: SendReport is called at most maxRetries times; a nil return comes right
\* after the one successful call, which is the last; an error return comes
\* after maxRetries calls that all failed; the agent sleeps only when another
\* attempt follows, so once between two attempts; and every call returns.
C39_RetryBoundedAndTerminates ==
    /\ [](/\ agent.sends <= agent.maxRetries
          /\ agent.pc \in {"sending", "sleeping"} => agent.sends = agent.attempt
          /\ agent.pc = "sleeping" => agent.attempt < agent.maxRetries
          /\ \A i \in 1..Len(agent.waits) : agent.waits[i] = RetryWait(i)
          /\ agent.pc = "returnedNil"
                => /\ agent.sends >= 1
                   /\ Len(agent.waits) = agent.sends - 1
          /\ agent.pc = "returnedErr"
                => /\ agent.sends = agent.maxRetries
                   /\ agent.maxRetries > 0
                        => /\ Len(agent.waits) = agent.maxRetries - 1
                           /\ agent.lastErr \in SendErrors)
    /\ (agent.pc # "idle") ~> (agent.pc \in {"returnedNil", "returnedErr"})

\* C39 witness: with maxRetries = 3 the call has returned its error after three
\* failed attempts and two waits.
C39_Witness ==
    /\ agent.pc = "returnedErr"
    /\ agent.maxRetries = 3
    /\ agent.sends = 3
    /\ agent.waits = <<2, 4>>

=============================================================================
